---- MODULE Spec2Model ----
(***************************************************************************)
(* Model of emergency_fix.py: fix_file_structure(filepath), the per-file   *)
(* text transform (classify lines, rewrite Log -> HiLog call prefixes,     *)
(* rebuild the import block, write the file back).                         *)
(*                                                                         *)
(* Text is modelled as TLA+ strings, one character per position, exactly   *)
(* as Python str; lines keep their "\n" terminator as readlines() does.    *)
(***************************************************************************)
EXTENDS Integers, Sequences, FiniteSets, TLC

(***************************************************************************)
(* Bounds of the exploration: lines per input file, calls per file.        *)
(***************************************************************************)
MaxLines == 3
MaxRuns == 2

(***************************************************************************)
(* Python str primitives.                                                  *)
(***************************************************************************)
\* Characters in code-point order: str comparison is by code point.
CodePoints == "\t\n !\"#$%&'()*+,-./0123456789:;<=>?@ABCDEFGHIJKLMNOPQRSTUVWXYZ[]^_abcdefghijklmnopqrstuvwxyz{|}~"

Ch(s, k) == SubSeq(s, k, k)

Ord(c) == CHOOSE k \in 1..Len(CodePoints) : Ch(CodePoints, k) = c

\* str.isspace for the characters str.strip() removes
IsSpace(c) == c \in {" ", "\t", "\n"}

RECURSIVE LStrip(_)
LStrip(s) ==
    IF Len(s) > 0 /\ IsSpace(Ch(s, 1)) THEN LStrip(SubSeq(s, 2, Len(s))) ELSE s

RECURSIVE RStrip(_)
RStrip(s) ==
    IF Len(s) > 0 /\ IsSpace(Ch(s, Len(s))) THEN RStrip(SubSeq(s, 1, Len(s) - 1)) ELSE s

\* str.strip()
Strip(s) == RStrip(LStrip(s))

\* str.startswith / str.endswith
StartsWith(s, p) == Len(s) >= Len(p) /\ SubSeq(s, 1, Len(p)) = p

EndsWith(s, p) == Len(s) >= Len(p) /\ SubSeq(s, Len(s) - Len(p) + 1, Len(s)) = p

\* p occurs in s at position k
MatchAt(s, p, k) == k + Len(p) - 1 <= Len(s) /\ SubSeq(s, k, k + Len(p) - 1) = p

\* the `in` operator on str
Contains(s, p) == \E k \in 1..(Len(s) - Len(p) + 1) : MatchAt(s, p, k)

\* str.replace(old, new): leftmost non-overlapping occurrences, one pass
RECURSIVE ReplaceFrom(_, _, _, _)
ReplaceFrom(s, old, new, k) ==
    LET hits == {j \in k..(Len(s) - Len(old) + 1) : MatchAt(s, old, j)}
    IN  IF hits = {} THEN SubSeq(s, k, Len(s))
        ELSE LET j == CHOOSE x \in hits : \A y \in hits : x <= y
             IN  SubSeq(s, k, j - 1) \o new \o ReplaceFrom(s, old, new, j + Len(old))

Replace(s, old, new) == ReplaceFrom(s, old, new, 1)

\* "".join(seq)
RECURSIVE Join(_)
Join(ss) == IF Len(ss) = 0 THEN "" ELSE Head(ss) \o Join(Tail(ss))

\* f.readlines(): split after each "\n", terminators kept
RECURSIVE ReadLinesFrom(_, _)
ReadLinesFrom(text, start) ==
    IF start > Len(text) THEN <<>>
    ELSE LET nls == {j \in start..Len(text) : Ch(text, j) = "\n"}
         IN  IF nls = {} THEN <<SubSeq(text, start, Len(text))>>
             ELSE LET j == CHOOSE x \in nls : \A y \in nls : x <= y
                  IN  <<SubSeq(text, start, j)>> \o ReadLinesFrom(text, j + 1)

ReadLines(text) == ReadLinesFrom(text, 1)

\* str.__lt__: first differing code point decides, else the shorter string
StrLess(a, b) ==
    LET n == IF Len(a) < Len(b) THEN Len(a) ELSE Len(b)
        diff == {k \in 1..n : Ch(a, k) # Ch(b, k)}
    IN  IF diff = {} THEN Len(a) < Len(b)
        ELSE LET d == CHOOSE k \in diff : \A m \in diff : k <= m
             IN  Ord(Ch(a, d)) < Ord(Ch(b, d))

\* mutant: sorted(..., reverse=True)
RECURSIVE SortedList_Descending(_)
SortedList_Descending(S) ==
    IF S = {} THEN <<>>
    ELSE LET m == CHOOSE x \in S : \A y \in S : x = y \/ StrLess(y, x)
         IN  <<m>> \o SortedList_Descending(S \ {m})

\* sorted(list(S)) for a set of str
RECURSIVE SortedList(_)
SortedList(S) ==
    IF S = {} THEN <<>>
    ELSE LET m == CHOOSE x \in S : \A y \in S : x = y \/ StrLess(x, y)
         IN  <<m>> \o SortedList(S \ {m})

(***************************************************************************)
(* Literals of fix_file_structure.                                         *)
(***************************************************************************)
OldImport == "import android.util.Log"
NewImport == "import com.coni.hyperisle.util.HiLog"

\* the ordered list of body.replace(old, new) calls
Patterns ==
    << <<"Log.d(TAG,", "HiLog.d(HiLog.TAG_ISLAND,">>,
       <<"Log.i(TAG,", "HiLog.i(HiLog.TAG_ISLAND,">>,
       <<"Log.w(TAG,", "HiLog.w(HiLog.TAG_ISLAND,">>,
       <<"Log.e(TAG,", "HiLog.e(HiLog.TAG_ISLAND,">>,
       <<"Log.d(\"HyperIsleIsland\",", "HiLog.d(HiLog.TAG_ISLAND,">>,
       <<"Log.w(\"HyperIsleIsland\",", "HiLog.w(HiLog.TAG_ISLAND,">>,
       <<"Log.e(\"HyperIsleIsland\",", "HiLog.e(HiLog.TAG_ISLAND,">>,
       <<"Log.d(\"HyperIsle\",", "HiLog.d(HiLog.TAG_ISLAND,">>,
       <<"Log.w(\"HyperIsle\",", "HiLog.w(HiLog.TAG_ISLAND,">>,
       <<"Log.d(\"HI_NOTIF\",", "HiLog.d(HiLog.TAG_NOTIF,">>,
       <<"Log.d(\"HI_CALL\",", "HiLog.d(HiLog.TAG_CALL,">>,
       <<"Log.d(\"HI_INPUT\",", "HiLog.d(HiLog.TAG_INPUT,">> >>

\* the static tag lookup
tag_map ==
    [t \in {"\"HyperIsleIsland\"", "\"HyperIsle\"", "\"HyperIsleAnchor\"",
            "\"HI_NOTIF\"", "\"HI_CALL\"", "\"HI_INPUT\"", "\"HI_WHATSAPP\"", "TAG"} |->
        CASE t = "\"HyperIsleIsland\"" -> "HiLog.TAG_ISLAND"
          [] t = "\"HyperIsle\""       -> "HiLog.TAG_ISLAND"
          [] t = "\"HyperIsleAnchor\"" -> "\"HyperIsleAnchor\""
          [] t = "\"HI_NOTIF\""        -> "HiLog.TAG_NOTIF"
          [] t = "\"HI_CALL\""         -> "HiLog.TAG_CALL"
          [] t = "\"HI_INPUT\""        -> "HiLog.TAG_INPUT"
          [] t = "\"HI_WHATSAPP\""     -> "\"HI_WHATSAPP\""
          [] t = "TAG"                 -> "HiLog.TAG_ISLAND"]

(***************************************************************************)
(* Steps of fix_file_structure as operators.                               *)
(***************************************************************************)
\* stripped.startswith("package ")
IsPackageLine(line) == StartsWith(Strip(line), "package ")

\* stripped.startswith("import ")
IsImportLine(line) == StartsWith(Strip(line), "import ")

\* mutant: the header test without the package_found flag
IsHeaderLine_AnyPosition(found, line) ==
    \/ StartsWith(Strip(line), "//")
    \/ StartsWith(Strip(line), "/*")
    \/ StartsWith(Strip(line), "*")
    \/ Strip(line) = ""

\* the header test: not package_found and (comment marker or blank)
IsHeaderLine(found, line) ==
    /\ ~found
    /\ \/ StartsWith(Strip(line), "//")
       \/ StartsWith(Strip(line), "/*")
       \/ StartsWith(Strip(line), "*")
       \/ Strip(line) = ""

\* mutant: the first package line is kept
RecordPackage_First(old, line) == IF old = "" THEN line ELSE old

\* package_line = line
RecordPackage(old, line) == line

\* mutant: imports.add(line)
AddImport_Raw(imps, line) == imps \cup {line}

\* imports.add(stripped)
AddImport(imps, line) == imps \cup {Strip(line)}

\* mutant: the early return is missing
HasPackage_Always(pl) == TRUE

\* `not package_line` is false; None is modelled as "" (both are falsy, and
\* no line returned by readlines() is empty)
HasPackage(pl) == pl # ""

\* body.replace("HiHiLog", "HiLog")
CollapseDoubled(b) == Replace(b, "HiHiLog", "HiLog")

\* mutant: one more replace, for the level v
RECURSIVE ReplaceKnown_AlsoVerbose(_, _)
ReplaceKnown_AlsoVerbose(b, k) ==
    IF k > Len(Patterns) THEN Replace(b, "Log.v(TAG,", "HiLog.v(HiLog.TAG_ISLAND,")
    ELSE ReplaceKnown_AlsoVerbose(Replace(b, Patterns[k][1], Patterns[k][2]), k + 1)

\* mutant: only the four replaces of the bare TAG are applied
RECURSIVE ReplaceKnown_TagOnly(_, _)
ReplaceKnown_TagOnly(b, k) ==
    IF k > 4 THEN b
    ELSE ReplaceKnown_TagOnly(Replace(b, Patterns[k][1], Patterns[k][2]), k + 1)

\* the chain of body.replace calls, in order
RECURSIVE ReplaceKnown(_, _)
ReplaceKnown(b, k) ==
    IF k > Len(Patterns) THEN b
    ELSE ReplaceKnown(Replace(b, Patterns[k][1], Patterns[k][2]), k + 1)

\* step 2 as a whole
FixContent(others) == ReplaceKnown(CollapseDoubled(Join(others)), 1)

\* mutant: the old import is kept
RemoveOldImport_Keep(imps) == imps

\* remove android.util.Log if present
RemoveOldImport(imps) == imps \ {OldImport}

\* add HiLog if missing and needed
AddNewImport(imps, b) ==
    IF Contains(b, "HiLog.") /\ NewImport \notin imps THEN imps \cup {NewImport} ELSE imps

\* if not package_line.endswith('\n'): f.write('\n')
Terminator(pl) == IF EndsWith(pl, "\n") THEN "" ELSE "\n"

\* for imp in sorted_imports: f.write(imp + '\n')
RECURSIVE ImportBlock(_)
ImportBlock(si) == IF Len(si) = 0 THEN "" ELSE Head(si) \o "\n" \o ImportBlock(Tail(si))

\* everything written between open(filepath, 'w') and close
Written(hc, pl, si, b) ==
    Join(hc) \o pl \o Terminator(pl) \o "\n" \o ImportBlock(si) \o "\n" \o b

(***************************************************************************)
(* Input files: up to MaxLines lines drawn from Vocab, the last line with  *)
(* or without its terminator.                                              *)
(***************************************************************************)
Vocab ==
    { "package a",
      "package b",
      "import android.util.Log",
      "  import z.HiHiLog\t",
      "// Log.d(TAG, x)",
      " * c",
      "",
      "Log.d(TAG, \"hello\")",
      "HiLog.d(TAG, Log.v(TAG, x))",
      "Log.i(\"HyperIsle\", Log.w(\"HyperIsle\", Log.d(someExpr, HiHiLog.y)))" }

RECURSIVE Text(_, _)
Text(ls, term) ==
    IF Len(ls) = 0 THEN ""
    ELSE IF Len(ls) = 1 THEN ls[1] \o (IF term THEN "\n" ELSE "")
    ELSE ls[1] \o "\n" \o Text(Tail(ls), term)

Inputs ==
    UNION { { Text(ls, term) : ls \in [1..n -> Vocab], term \in BOOLEAN } : n \in 0..MaxLines }

(***************************************************************************)
(* State.                                                                  *)
(***************************************************************************)
VARIABLES
    exists,           \* os.path.exists(filepath)
    file,             \* the text of the file on disk
    pc,               \* position in fix_file_structure
    lines,            \* f.readlines()
    idx,              \* position of the `for line in lines` loop
    package_line,
    package_found,
    imports,
    other_lines,
    header_comments,
    body,
    sorted_imports,
    stdout,           \* lines printed so far
    run,              \* number of the current call on this file
    hist              \* hist[r]: text of the file when call r started

vars == <<exists, file, pc, lines, idx, package_line, package_found, imports,
          other_lines, header_comments, body, sorted_imports, stdout, run, hist>>

locals == <<lines, idx, package_line, package_found, imports, other_lines,
            header_comments, body, sorted_imports>>

Init ==
    /\ exists \in BOOLEAN
    /\ file \in (IF exists THEN Inputs ELSE {""})
    /\ pc = "call"
    /\ lines = <<>>
    /\ idx = 1
    /\ package_line = ""
    /\ package_found = FALSE
    /\ imports = {}
    /\ other_lines = <<>>
    /\ header_comments = <<>>
    /\ body = ""
    /\ sorted_imports = <<>>
    /\ stdout = <<>>
    /\ run = 1
    /\ hist = <<file>>

\* if not os.path.exists(filepath): return
ReturnMissing ==
    /\ pc = "call" /\ ~exists
    /\ pc' = "done"
    /\ UNCHANGED <<exists, file, locals, stdout, run, hist>>

\* lines = f.readlines() and the initialisation of the locals
ReadFile ==
    /\ pc = "call" /\ exists
    /\ lines' = ReadLines(file)
    /\ idx' = 1
    /\ package_line' = ""
    /\ package_found' = FALSE
    /\ imports' = {}
    /\ other_lines' = <<>>
    /\ header_comments' = <<>>
    /\ body' = ""
    /\ sorted_imports' = <<>>
    /\ pc' = "parse"
    /\ UNCHANGED <<exists, file, stdout, run, hist>>

\* loop body, first branch: a package line
ParsePackage ==
    /\ pc = "parse" /\ idx <= Len(lines)
    /\ IsPackageLine(lines[idx])
    /\ package_line' = RecordPackage(package_line, lines[idx])
    /\ package_found' = TRUE
    /\ idx' = idx + 1
    /\ UNCHANGED <<exists, file, pc, lines, imports, other_lines, header_comments,
                   body, sorted_imports, stdout, run, hist>>

\* loop body, second branch: an import line
ParseImport ==
    /\ pc = "parse" /\ idx <= Len(lines)
    /\ ~IsPackageLine(lines[idx])
    /\ IsImportLine(lines[idx])
    /\ imports' = AddImport(imports, lines[idx])
    /\ idx' = idx + 1
    /\ UNCHANGED <<exists, file, pc, lines, package_line, package_found, other_lines,
                   header_comments, body, sorted_imports, stdout, run, hist>>

\* loop body, third branch: header comment or blank line before the package
ParseHeader ==
    /\ pc = "parse" /\ idx <= Len(lines)
    /\ ~IsPackageLine(lines[idx])
    /\ ~IsImportLine(lines[idx])
    /\ IsHeaderLine(package_found, lines[idx])
    /\ header_comments' = Append(header_comments, lines[idx])
    /\ idx' = idx + 1
    /\ UNCHANGED <<exists, file, pc, lines, package_line, package_found, imports,
                   other_lines, body, sorted_imports, stdout, run, hist>>

\* loop body, else branch: body content
ParseOther ==
    /\ pc = "parse" /\ idx <= Len(lines)
    /\ ~IsPackageLine(lines[idx])
    /\ ~IsImportLine(lines[idx])
    /\ ~IsHeaderLine(package_found, lines[idx])
    /\ other_lines' = Append(other_lines, lines[idx])
    /\ idx' = idx + 1
    /\ UNCHANGED <<exists, file, pc, lines, package_line, package_found, imports,
                   header_comments, body, sorted_imports, stdout, run, hist>>

\* loop exhausted
ParseDone ==
    /\ pc = "parse" /\ idx > Len(lines)
    /\ pc' = "check"
    /\ UNCHANGED <<exists, file, locals, stdout, run, hist>>

\* if not package_line: return
ReturnNoPackage ==
    /\ pc = "check" /\ ~HasPackage(package_line)
    /\ pc' = "done"
    /\ UNCHANGED <<exists, file, locals, stdout, run, hist>>

\* 2. Fix content (Log -> HiLog)
RewriteBody ==
    /\ pc = "check" /\ HasPackage(package_line)
    /\ body' = FixContent(other_lines)
    /\ pc' = "imports"
    /\ UNCHANGED <<exists, file, lines, idx, package_line, package_found, imports,
                   other_lines, header_comments, sorted_imports, stdout, run, hist>>

\* 3. Reconstruct imports
ReconcileImports ==
    /\ pc = "imports"
    /\ imports' = AddNewImport(RemoveOldImport(imports), body)
    /\ sorted_imports' = SortedList(imports')
    /\ pc' = "write"
    /\ UNCHANGED <<exists, file, lines, idx, package_line, package_found, other_lines,
                   header_comments, body, stdout, run, hist>>

\* 4. Write back
WriteBack ==
    /\ pc = "write"
    /\ file' = Written(header_comments, package_line, sorted_imports, body)
    /\ pc' = "print"
    /\ UNCHANGED <<exists, locals, stdout, run, hist>>

\* print(f"Fixed {filepath}")
PrintFixed ==
    /\ pc = "print"
    /\ stdout' = Append(stdout, "Fixed")
    /\ pc' = "done"
    /\ UNCHANGED <<exists, file, locals, run, hist>>

\* the walk over the tree is run again and reaches the same file
Rerun ==
    /\ pc = "done" /\ run < MaxRuns
    /\ run' = run + 1
    /\ hist' = Append(hist, file)
    /\ pc' = "call"
    /\ UNCHANGED <<exists, file, locals, stdout>>

Next ==
    \/ ReturnMissing
    \/ ReadFile
    \/ ParsePackage
    \/ ParseImport
    \/ ParseHeader
    \/ ParseOther
    \/ ParseDone
    \/ ReturnNoPackage
    \/ RewriteBody
    \/ ReconcileImports
    \/ WriteBack
    \/ PrintFixed

\* one run of the script: the file is visited once
Spec == Init /\ [][Next]_vars

\* the script run again over the same tree, up to MaxRuns calls per file
NextTwice == Next \/ Rerun

SpecTwice == Init /\ [][NextTwice]_vars

(***************************************************************************)
(* Vocabulary of the properties: what the input of the current call looks  *)
(* like, stated on the text of the file and not on the locals of the call. *)
(***************************************************************************)
\* text of the file when the current call started, and its lines
Input == hist[run]
InLines == ReadLines(Input)

\* a line whose stripped content starts with `package `
PkgDecl(l) == StartsWith(Strip(l), "package ")

\* a line whose stripped content starts with `import `
ImpDecl(l) == StartsWith(Strip(l), "import ")

\* a blank or comment-looking line
CommentOrBlank(l) ==
    LET t == Strip(l) IN t = "" \/ \E m \in {"//", "/*", "*"} : StartsWith(t, m)

PkgBefore(ls, i) == \E j \in 1..(i - 1) : PkgDecl(ls[j])

PkgIdx(ls) == {i \in 1..Len(ls) : PkgDecl(ls[i])}
ImpIdx(ls) == {i \in 1..Len(ls) : ImpDecl(ls[i])}
HdrIdx(ls) == {i \in 1..Len(ls) : CommentOrBlank(ls[i]) /\ ~PkgBefore(ls, i)}
OtherIdx(ls) == (1..Len(ls)) \ (PkgIdx(ls) \cup ImpIdx(ls) \cup HdrIdx(ls))

\* the lines of ls at the positions I, in their original order
RECURSIVE SubseqFrom(_, _, _)
SubseqFrom(ls, I, k) ==
    IF k > Len(ls) THEN <<>>
    ELSE (IF k \in I THEN <<ls[k]>> ELSE <<>>) \o SubseqFrom(ls, I, k + 1)

SubseqAt(ls, I) == SubseqFrom(ls, I, 1)

Min(S) == CHOOSE x \in S : \A y \in S : x <= y
Max(S) == CHOOSE x \in S : \A y \in S : x >= y

WithNL(l) == IF EndsWith(l, "\n") THEN l ELSE l \o "\n"

InHeader == SubseqAt(InLines, HdrIdx(InLines))
InBody == Join(SubseqAt(InLines, OtherIdx(InLines)))
InImports == {Strip(InLines[i]) : i \in ImpIdx(InLines)}
HasPkgDecl == PkgIdx(InLines) # {}

\* the current call has returned after writing the file
Rewrote == pc = "done" /\ exists /\ HasPkgDecl

OutLines == ReadLines(file)
OutImports == {Strip(OutLines[i]) : i \in ImpIdx(OutLines)}

\* number of occurrences of p in s
Count(s, p) == Cardinality({k \in 1..Len(s) : MatchAt(s, p, k)})

\* the enumerated old-API call shapes, as level and tag
Enumerated ==
    { <<"d", "TAG">>, <<"i", "TAG">>, <<"w", "TAG">>, <<"e", "TAG">>,
      <<"d", "\"HyperIsleIsland\"">>, <<"w", "\"HyperIsleIsland\"">>,
      <<"e", "\"HyperIsleIsland\"">>,
      <<"d", "\"HyperIsle\"">>, <<"w", "\"HyperIsle\"">>,
      <<"d", "\"HI_NOTIF\"">>, <<"d", "\"HI_CALL\"">>, <<"d", "\"HI_INPUT\"">> }

OldCall(e) == "Log." \o e[1] \o "(" \o e[2] \o ","
NewCall(e) == "HiLog." \o e[1] \o "(" \o tag_map[e[2]] \o ","

\* one left-to-right pass that maps every enumerated call through tag_map
RECURSIVE MapCallsFrom(_, _)
MapCallsFrom(s, k) ==
    LET at == {j \in k..Len(s) : \E e \in Enumerated : MatchAt(s, OldCall(e), j)}
    IN  IF at = {} THEN SubSeq(s, k, Len(s))
        ELSE LET j == Min(at)
                 e == CHOOSE x \in Enumerated : MatchAt(s, OldCall(x), j)
             IN  SubSeq(s, k, j - 1) \o NewCall(e) \o MapCallsFrom(s, j + Len(OldCall(e)))

MapCalls(s) == MapCallsFrom(s, 1)

\* call shapes outside the enumeration
Unlisted ==
    { "Log.d(someExpr,", "Log.i(\"HyperIsle\",", "Log.v(TAG,",
      "Log.i(\"HyperIsleIsland\",", "Log.e(\"HI_CALL\",", "Log.d(\"HyperIsleAnchor\"," }

(***************************************************************************)
(* C1: running the transform on its own output leaves the file as it is    *)
(* (T(T(x)) = T(x)).                                                       *)
(***************************************************************************)
C1_Idempotent == (pc = "done" /\ exists /\ run >= 2) => file = hist[run]

(***************************************************************************)
(* C2: when no line of the file is a package declaration, no step of the   *)
(* call changes the file or prints anything.                               *)
(***************************************************************************)
C2_NoPackageNoWrite == [][~HasPkgDecl => (file' = file /\ stdout' = stdout)]_vars

C2_Witness ==
    /\ pc = "done" /\ exists /\ ~HasPkgDecl
    /\ ImpIdx(InLines) # {}
    /\ Contains(Input, "//")
    /\ Contains(Input, "Log.d(TAG,")

(***************************************************************************)
(* C3: with a package declaration anywhere in the input, the file written  *)
(* is header lines, package line, blank line, the distinct imports in      *)
(* ascending order one per line, blank line, body.                         *)
(***************************************************************************)
C3_ExpectedImports ==
    (InImports \ {OldImport}) \cup (IF Contains(body, "HiLog.") THEN {NewImport} ELSE {})

C3_OutputLayout ==
    Rewrote =>
        LET pre == Join(InHeader) \o WithNL(InLines[Max(PkgIdx(InLines))]) \o "\n"
            post == "\n" \o body
            mid == ReadLines(SubSeq(file, Len(pre) + 1, Len(file) - Len(post)))
        IN  /\ Len(file) >= Len(pre) + Len(post)
            /\ StartsWith(file, pre)
            /\ EndsWith(file, post)
            /\ \A k \in 1..Len(mid) : EndsWith(mid[k], "\n")
            /\ \A k \in 1..(Len(mid) - 1) :
                  StrLess(SubSeq(mid[k], 1, Len(mid[k]) - 1),
                          SubSeq(mid[k + 1], 1, Len(mid[k + 1]) - 1))
            /\ {mid[k] : k \in 1..Len(mid)} = {s \o "\n" : s \in C3_ExpectedImports}

C3_Witness ==
    /\ Rewrote
    /\ Min(ImpIdx(InLines) \cup {Len(InLines) + 1}) < Min(PkgIdx(InLines))
    /\ Cardinality(OutImports) >= 2

(***************************************************************************)
(* C4, as stated: package declaration, old logging import and a recognized *)
(* call pattern anywhere in the input give an import block with the new    *)
(* import and without the old one.                                         *)
(***************************************************************************)
C4_Original ==
    (Rewrote /\ OldImport \in InImports /\ \E e \in Enumerated : Contains(Input, OldCall(e)))
        => (NewImport \in OutImports /\ OldImport \notin OutImports)

(***************************************************************************)
(* C4, amended: the same with the recognized call pattern in a body line;  *)
(* and the import block has the new import whenever the rewritten body     *)
(* refers to `HiLog.`.                                                     *)
(***************************************************************************)
C4_ImportHygiene ==
    Rewrote =>
        /\ (OldImport \in InImports /\ \E e \in Enumerated : Contains(InBody, OldCall(e)))
              => (NewImport \in OutImports /\ OldImport \notin OutImports)
        /\ Contains(body, "HiLog.") => NewImport \in OutImports

C4_Witness ==
    /\ Rewrote
    /\ OldImport \in InImports
    /\ Contains(InBody, "Log.d(TAG,")
    /\ NewImport \in OutImports

(***************************************************************************)
(* C5: a logging call outside the enumerated patterns is in the output     *)
(* body as often as in the input body, its text unchanged.                 *)
(***************************************************************************)
C5_WhitelistOnly ==
    Rewrote => \A c \in Unlisted : Count(body, c) = Count(InBody, c)

C5_Witness ==
    /\ Rewrote
    /\ Contains(body, "Log.v(TAG,")
    /\ Contains(body, "Log.d(someExpr,")
    /\ body # InBody

(***************************************************************************)
(* C6: every enumerated `Log.<level>(<tag>,` in the body becomes           *)
(* `HiLog.<level>(<tag_map[tag]>,` with the same level, the replacement    *)
(* touches nothing else of the body (as it stands after the collapse of    *)
(* `HiHiLog`), and no enumerated pattern is left in the output body.       *)
(***************************************************************************)
C6_MappedCalls ==
    Rewrote =>
        /\ body = MapCalls(CollapseDoubled(InBody))
        /\ \A e \in Enumerated : ~Contains(body, OldCall(e))
        /\ Contains(InBody, "Log.d(TAG, \"hello\")\n")
              => Contains(body, "HiLog.d(HiLog.TAG_ISLAND, \"hello\")\n")

C6_Witness ==
    /\ Rewrote
    /\ Contains(InBody, "Log.d(TAG, \"hello\")")
    /\ Contains(InBody, "Log.w(\"HyperIsle\",")
    /\ Contains(body, "HiLog.w(HiLog.TAG_ISLAND, Log.d(someExpr, HiLog.y)))\n")

(***************************************************************************)
(* C7, as stated: with several package declarations the first one is the   *)
(* package line of the output.                                             *)
(***************************************************************************)
C7_Original ==
    Rewrote =>
        \A i \in PkgIdx(OutLines) : OutLines[i] = WithNL(InLines[Min(PkgIdx(InLines))])

(***************************************************************************)
(* C7, amended: the last package declaration is the package line of the    *)
(* output, and it is the only package declaration in the output.           *)
(***************************************************************************)
C7_LastPackageWins ==
    Rewrote =>
        /\ Cardinality(PkgIdx(OutLines)) = 1
        /\ \A i \in PkgIdx(OutLines) : OutLines[i] = WithNL(InLines[Max(PkgIdx(InLines))])

C7_Witness ==
    /\ Rewrote
    /\ \E i, j \in PkgIdx(InLines) : i < j /\ WithNL(InLines[i]) # WithNL(InLines[j])

(***************************************************************************)
(* C8: while and after the lines are classified, every line read so far is *)
(* in exactly one bucket; a blank or comment-looking line is a header line *)
(* iff no package line precedes it, else body; header and body keep the    *)
(* order of the file.                                                      *)
(***************************************************************************)
C8_Classification ==
    pc \in {"parse", "check"} =>
        LET seen == SubSeq(lines, 1, idx - 1)
        IN  /\ header_comments = SubseqAt(seen, HdrIdx(seen))
            /\ other_lines = SubseqAt(seen, OtherIdx(seen))
            /\ imports = {Strip(seen[i]) : i \in ImpIdx(seen)}
            /\ package_found <=> PkgIdx(seen) # {}
            /\ \A i \in 1..Len(seen) :
                  CommentOrBlank(seen[i]) =>
                      /\ i \in HdrIdx(seen) <=> ~PkgBefore(seen, i)
                      /\ i \in OtherIdx(seen) <=> PkgBefore(seen, i)
            /\ Len(header_comments) + Len(other_lines)
                  + Cardinality(PkgIdx(seen)) + Cardinality(ImpIdx(seen)) = Len(seen)

C8_Witness ==
    /\ pc = "check"
    /\ header_comments # <<>>
    /\ \E i \in 1..Len(other_lines) : CommentOrBlank(other_lines[i])

(***************************************************************************)
(* C9: header lines and the package line are written as read, and every    *)
(* import line of the output is the stripped text of an input import (or   *)
(* the new import), whatever patterns these lines contain.                 *)
(***************************************************************************)
C9_RewriteBodyOnly ==
    Rewrote =>
        /\ StartsWith(file, Join(InHeader) \o InLines[Max(PkgIdx(InLines))])
        /\ \A s \in InImports \ {OldImport} : \E i \in 1..Len(OutLines) : OutLines[i] = s \o "\n"
        /\ \A i \in ImpIdx(OutLines) :
              /\ OutLines[i] = Strip(OutLines[i]) \o "\n"
              /\ Strip(OutLines[i]) \in InImports \cup {NewImport}

C9_Witness ==
    /\ Rewrote
    /\ Contains(Join(InHeader), "Log.d(TAG,")
    /\ "import z.HiHiLog" \in OutImports

(***************************************************************************)
(* C10: the body written never contains the doubled prefix `HiHiLog`.      *)
(***************************************************************************)
C10_NoDoubledPrefix == Rewrote => ~Contains(body, "HiHiLog")

====
